---- MODULE Spec2Model ----
(***************************************************************************)
(* A model of tools/perf/scripts/python/export-to-postgresql.py: the       *)
(* module-level start-up (argument parsing, working directory, database,   *)
(* DDL, staging files), the event callbacks that append binary COPY        *)
(* records to the staging files, and trace_end (bulk copy, file removal,   *)
(* primary keys, foreign keys); and of list_check of                       *)
(* scripts/gdb/linux/lists.py.                                             *)
(***************************************************************************)
EXTENDS Integers, Sequences, FiniteSets, TLC

VARIABLES
    argv,                       \* sys.argv, argv[1] being Python's sys.argv[0]
    pc,                         \* position of the script / of trace_end
    idx,                        \* position inside the current phase's statement list
    failedAt,                   \* "" or the step whose exception ended the run
    columns,                    \* the columns argument
    branches,                   \* columns == "branches"
    perf_db_export_calls,
    perf_db_export_callchains,
    dirExists,                  \* the directory os.mkdir made is on disk
    dbCreated,                  \* CREATE DATABASE succeeded
    created,                    \* tables and views created by DDL
    files,                      \* per table: the staging file's state and content
    nEvents,                    \* event callbacks delivered so far
    nargs,                      \* positional arguments of the last sample_table call
    copyStep,                   \* position inside copy_output_file
    data,                       \* len(data): bytes returned by the last file.read
    pos,                        \* read position of the file being copied
    sent,                       \* bytes accepted by PQputCopyData for the file being copied
    loaded,                     \* per table: the rows the database received
    copied,                     \* tables whose copy_output_file returned
    pkAdded,                    \* tables with a primary key
    fkAdded,                    \* tables whose foreign keys were added
    indexAdded,                 \* pcpid_idx created
    unhandled_count,
    warned,                     \* the unhandled-events warning was printed
    mem,                        \* lists.py: per address the struct list_head there
    readable,                   \* addresses gdb can read
    headType,                   \* the type of list_check's argument
    head,                       \* the address of the struct list_check starts from
    lpc,                        \* position of list_check
    cur,                        \* the address of list_check's c
    nb,
    out                         \* what list_check wrote or raised

\* the variables of list_check
listVars == <<mem, readable, headType, head, lpc, cur, nb, out>>

\* the variables of the exporter
exportVars == <<argv, pc, idx, failedAt, columns, branches, perf_db_export_calls,
                perf_db_export_callchains, dirExists, dbCreated, created, files,
                nEvents, nargs, copyStep, data, pos, sent, loaded, copied, pkAdded,
                fkAdded, indexAdded, unhandled_count, warned>>

vars == <<exportVars, listVars>>

(***************************************************************************)
(* Bounds of the model.                                                    *)
(***************************************************************************)
MaxArgc == 4
MaxEvents == 1
MaxRefEvents == 2

(***************************************************************************)
(* Command line.                                                           *)
(***************************************************************************)
Tokens == {"all", "branches", "calls", "callchains", "bogus"}

Argvs ==
    {<<"export-to-postgresql.py">>, <<"export-to-postgresql.py", "db">>}
    \cup UNION {{<<"export-to-postgresql.py", "db">> \o rest :
                   rest \in [1..n -> Tokens]} : n \in 1..(MaxArgc - 2)}

\* sys.argv[i], Python's 0-based index
Arg(av, i) == av[i + 1]

ColumnsOf(av) == IF Len(av) >= 3 THEN Arg(av, 2) ELSE "all"

\* indexes of range(3, len(sys.argv)) whose token reaches the else branch
BadTokens(av) == {i \in 3..(Len(av) - 1) : Arg(av, i) \notin {"calls", "callchains"}}

UsageRaisedIgnoringTokens(av) ==
    \/ Len(av) < 2
    \/ ColumnsOf(av) \notin {"all", "branches"}

\* usage() is called, raising "Too few arguments"
UsageRaised(av) ==
    \/ Len(av) < 2
    \/ ColumnsOf(av) \notin {"all", "branches"}
    \/ BadTokens(av) # {}

\* the tokens the for loop handled before it stopped
TokensSeen(av) ==
    LET stop == IF BadTokens(av) = {} THEN Len(av)
                ELSE CHOOSE b \in BadTokens(av) : \A c \in BadTokens(av) : b <= c
    IN  {Arg(av, i) : i \in 3..(stop - 1)}

(***************************************************************************)
(* Tables, views and the order of the statements.                          *)
(***************************************************************************)
BaseTables == <<"selected_events", "machines", "threads", "comms", "comm_threads",
                "dsos", "symbols", "branch_types", "samples">>

Tables == {BaseTables[i] : i \in 1..Len(BaseTables)} \cup {"call_paths", "calls"}

\* the CREATE TABLE statements of the run, in order
TableOrder(calls, chains) ==
    BaseTables
    \o (IF calls \/ chains THEN <<"call_paths">> ELSE <<>>)
    \o (IF calls THEN <<"calls">> ELSE <<>>)

ViewOrder(calls, chains) ==
    <<"machines_view", "dsos_view", "symbols_view", "threads_view", "comm_threads_view">>
    \o (IF calls \/ chains THEN <<"call_paths_view">> ELSE <<>>)
    \o (IF calls THEN <<"calls_view">> ELSE <<>>)
    \o <<"samples_view">>

\* do_query statements from SET client_min_messages to CREATE VIEW samples_view
DdlOrder(calls, chains) ==
    <<"SET">> \o TableOrder(calls, chains) \o ViewOrder(calls, chains)

\* the open_output_file statements, by the table each file is staged for
OpenOrder(calls, chains) ==
    <<"selected_events", "machines", "threads", "comms", "comm_threads", "dsos",
      "symbols", "branch_types", "samples">>
    \o (IF calls \/ chains THEN <<"call_paths">> ELSE <<>>)
    \o (IF calls THEN <<"calls">> ELSE <<>>)

\* the copy_output_file statements of trace_end
CopyOrder(calls, chains) ==
    <<"selected_events", "machines", "threads", "comms", "comm_threads", "dsos",
      "symbols", "branch_types", "samples">>
    \o (IF calls \/ chains THEN <<"call_paths">> ELSE <<>>)
    \o (IF calls THEN <<"calls">> ELSE <<>>)

\* the remove_output_file statements of trace_end
RemoveOrder(calls, chains) ==
    <<"selected_events", "machines", "threads", "comms", "comm_threads", "dsos",
      "symbols", "branch_types", "samples">>
    \o (IF calls \/ chains THEN <<"call_paths">> ELSE <<>>)
    \o (IF calls THEN <<"calls">> ELSE <<>>)

PkOrderCallsOnly(calls, chains) ==
    <<"selected_events", "machines", "threads", "comms", "comm_threads", "dsos",
      "symbols", "branch_types", "samples">>
    \o (IF calls THEN <<"call_paths">> ELSE <<>>)
    \o (IF calls THEN <<"calls">> ELSE <<>>)

\* the ALTER TABLE ... ADD PRIMARY KEY statements of trace_end
PkOrder(calls, chains) ==
    <<"selected_events", "machines", "threads", "comms", "comm_threads", "dsos",
      "symbols", "branch_types", "samples">>
    \o (IF calls \/ chains THEN <<"call_paths">> ELSE <<>>)
    \o (IF calls THEN <<"calls">> ELSE <<>>)

Range(s) == {s[i] : i \in 1..Len(s)}

RunTables == Range(TableOrder(perf_db_export_calls, perf_db_export_callchains))

(***************************************************************************)
(* Binary COPY records.  A field is <<length prefix, content bytes, kind>>.*)
(***************************************************************************)
FileHeaderLen == 19
FileTrailerLen == 2

\* <<the length argument, struct's size of the format character, the character>>
Q(v) == <<8, 8, "q">>   \* "iq": 8, value
I(v) == <<4, 4, "i">>   \* "ii": 4, value
B_as_int(v) == <<4, 1, "B">>
B(v) == <<1, 1, "B">>   \* "iB": 1, value
S(n) == <<n, n, "s">>   \* "i{n}s": n, string with n = len(string)

NoRefs == [x \in {} |-> 0]

\* what the model keeps of a written byte string: its kind, its length, and of
\* a record the id, the declared field count, the foreign-key values and the
\* fields
Header == [k |-> "hdr", id |-> 0, nf |-> 0, fk |-> NoRefs, len |-> FileHeaderLen]
Trailer == [k |-> "trl", id |-> 0, nf |-> 0, fk |-> NoRefs, len |-> FileTrailerLen]

Row(id, nf, fk, flds) == [k |-> "row", id |-> id, nf |-> nf, fk |-> fk, flds |-> flds]

RECURSIVE SumWidths(_)
SumWidths(flds) ==
    IF flds = <<>> THEN 0 ELSE 4 + Head(flds)[2] + SumWidths(Tail(flds))

\* len(struct.pack(...)): the 16-bit count, then per field 4 bytes and the content
PackedLen(value) == 2 + SumWidths(value.flds)

RECURSIVE ContentLen(_)
ContentLen(c) == IF c = <<>> THEN 0 ELSE Head(c).len + ContentLen(Tail(c))

evsel_row(evsel_id, n) == Row(evsel_id, 2, NoRefs, <<Q(evsel_id), S(n)>>)

machine_row(machine_id, n) == Row(machine_id, 3, NoRefs, <<Q(machine_id), I(0), S(n)>>)

thread_row(thread_id, machine_id, process_id) ==
    Row(thread_id, 5, [machine_id |-> machine_id, process_id |-> process_id],
        <<Q(thread_id), Q(machine_id), Q(process_id), I(0), I(0)>>)

comm_row(comm_id, n) == Row(comm_id, 2, NoRefs, <<Q(comm_id), S(n)>>)

comm_thread_row(comm_thread_id, comm_id, thread_id) ==
    Row(comm_thread_id, 3, [comm_id |-> comm_id, thread_id |-> thread_id],
        <<Q(comm_thread_id), Q(comm_id), Q(thread_id)>>)

dso_row(dso_id, machine_id, n1, n2, n3) ==
    Row(dso_id, 5, [machine_id |-> machine_id],
        <<Q(dso_id), Q(machine_id), S(n1), S(n2), S(n3)>>)

symbol_row(symbol_id, dso_id, n) ==
    Row(symbol_id, 6, [dso_id |-> dso_id],
        <<Q(symbol_id), Q(dso_id), Q(0), Q(0), I(0), S(n)>>)

branch_type_row(branch_type, n) == Row(branch_type, 2, NoRefs, <<I(branch_type), S(n)>>)

SampleRefCols == {"evsel_id", "machine_id", "thread_id", "comm_id", "dso_id",
                  "symbol_id", "to_dso_id", "to_symbol_id"}

sample_row_22_always(br, sample_id, r) ==
    Row(sample_id, 22, r,
        <<Q(sample_id), Q(r.evsel_id), Q(r.machine_id), Q(r.thread_id), Q(r.comm_id),
          Q(r.dso_id), Q(r.symbol_id), Q(0), Q(0), Q(0), I(0),
          Q(r.to_dso_id), Q(r.to_symbol_id), Q(0), Q(0),
          Q(0), Q(0), Q(0), Q(0), I(0), B(0), Q(0)>>)

\* the record sample_table packs; r holds the foreign-key valued arguments
sample_row(br, sample_id, r) ==
    IF br
    THEN Row(sample_id, 18, r,
             <<Q(sample_id), Q(r.evsel_id), Q(r.machine_id), Q(r.thread_id), Q(r.comm_id),
               Q(r.dso_id), Q(r.symbol_id), Q(0), Q(0), Q(0), I(0),
               Q(r.to_dso_id), Q(r.to_symbol_id), Q(0), Q(0),
               I(0), B(0), Q(0)>>)
    ELSE Row(sample_id, 22, r,
             <<Q(sample_id), Q(r.evsel_id), Q(r.machine_id), Q(r.thread_id), Q(r.comm_id),
               Q(r.dso_id), Q(r.symbol_id), Q(0), Q(0), Q(0), I(0),
               Q(r.to_dso_id), Q(r.to_symbol_id), Q(0), Q(0),
               Q(0), Q(0), Q(0), Q(0), I(0), B(0), Q(0)>>)

call_path_row_swapped(cp_id, parent_id, symbol_id) ==
    Row(parent_id, 4, [parent_id |-> cp_id, symbol_id |-> symbol_id],
        <<Q(parent_id), Q(cp_id), Q(symbol_id), Q(0)>>)

call_path_row(cp_id, parent_id, symbol_id) ==
    Row(cp_id, 4, [parent_id |-> parent_id, symbol_id |-> symbol_id],
        <<Q(cp_id), Q(parent_id), Q(symbol_id), Q(0)>>)

call_return_row(cr_id, thread_id, comm_id, call_path_id, call_id, return_id, parent_call_path_id) ==
    Row(cr_id, 11,
        [thread_id |-> thread_id, comm_id |-> comm_id, call_path_id |-> call_path_id,
         call_id |-> call_id, return_id |-> return_id,
         parent_call_path_id |-> parent_call_path_id],
        <<Q(cr_id), Q(thread_id), Q(comm_id), Q(call_path_id), Q(0), Q(0), Q(0),
          Q(call_id), Q(return_id), Q(parent_call_path_id), I(0)>>)

(***************************************************************************)
(* Inputs of the event callbacks.                                          *)
(***************************************************************************)
Ids == {1}
Refs == {0} \cup Ids
StrLens == {4}
UnknownLen == 7             \* len("unknown")

\* foreign-key arguments: all equal, or all zero but one column
RefTuples(cols) ==
    {[c \in cols |-> v] : v \in Refs}
    \cup {[c \in cols |-> IF c = d[1] THEN d[2] ELSE 0] : d \in cols \X Refs}

CallRefCols == {"thread_id", "comm_id", "call_path_id", "call_id", "return_id",
                "parent_call_path_id"}

SampleArity == 22           \* positional parameters of sample_table before *x
ArgCounts == {SampleArity - 1, SampleArity, SampleArity + 1}

(***************************************************************************)
(* The database's view of the loaded rows.                                 *)
(***************************************************************************)
RowIds(rows) == {rows[i].id : i \in 1..Len(rows)}

\* ALTER TABLE t ADD PRIMARY KEY (id) is accepted only when the ids are unique
PkAccepted(t) ==
    \A i, j \in 1..Len(loaded[t]) : loaded[t][i].id = loaded[t][j].id => i = j

SamplesFkWithoutToSymbol ==
    {<<"evsel_id", "selected_events">>, <<"machine_id", "machines">>,
     <<"thread_id", "threads">>, <<"comm_id", "comms">>, <<"dso_id", "dsos">>,
     <<"symbol_id", "symbols">>, <<"to_dso_id", "dsos">>}

\* the constraints of ALTER TABLE samples: <<column, referenced table>>
SamplesFk ==
    {<<"evsel_id", "selected_events">>, <<"machine_id", "machines">>,
     <<"thread_id", "threads">>, <<"comm_id", "comms">>, <<"dso_id", "dsos">>,
     <<"symbol_id", "symbols">>, <<"to_dso_id", "dsos">>, <<"to_symbol_id", "symbols">>}

FkConstraints(t) ==
    CASE t = "threads" -> {<<"machine_id", "machines">>, <<"process_id", "threads">>}
      [] t = "comm_threads" -> {<<"comm_id", "comms">>, <<"thread_id", "threads">>}
      [] t = "dsos" -> {<<"machine_id", "machines">>}
      [] t = "symbols" -> {<<"dso_id", "dsos">>}
      [] t = "samples" -> SamplesFk
      [] t = "call_paths" -> {<<"parent_id", "call_paths">>, <<"symbol_id", "symbols">>}
      [] t = "calls" -> {<<"thread_id", "threads">>, <<"comm_id", "comms">>,
                         <<"call_path_id", "call_paths">>, <<"call_id", "samples">>,
                         <<"return_id", "samples">>,
                         <<"parent_call_path_id", "call_paths">>}
      [] OTHER -> {}

\* ADD CONSTRAINT ... FOREIGN KEY is accepted only when the referenced column
\* is a key and every row resolves
FkAccepted(t) ==
    \A c \in FkConstraints(t) :
        /\ c[2] \in pkAdded
        /\ \A i \in 1..Len(loaded[t]) : loaded[t][i].fk[c[1]] \in RowIds(loaded[c[2]])

\* column types of the CREATE TABLE statements: <<type, bytes>>, for varchar(n)
\* the bytes being n
BigInt == <<"bigint", 8>>
Integer == <<"integer", 4>>
Boolean == <<"boolean", 1>>
Varchar(n) == <<"varchar", n>>

\* CREATE TABLE samples, from id to to_ip
SamplesCommonColumns ==
    <<BigInt, BigInt, BigInt, BigInt, BigInt, BigInt, BigInt, BigInt, BigInt, BigInt,
      Integer, BigInt, BigInt, BigInt, BigInt>>

\* the columns of CREATE TABLE samples: branches ends with branch_type, in_tx;
\* all with period, weight, transaction, data_src, branch_type, in_tx,
\* call_path_id
SamplesColumns(br) ==
    IF br
    THEN SamplesCommonColumns \o <<Integer, Boolean>>
    ELSE SamplesCommonColumns \o <<BigInt, BigInt, BigInt, BigInt, Integer, Boolean, BigInt>>

\* the columns of CREATE TABLE t
Columns(t, br) ==
    CASE t = "selected_events" -> <<BigInt, Varchar(80)>>
      [] t = "machines" -> <<BigInt, Integer, Varchar(4096)>>
      [] t = "threads" -> <<BigInt, BigInt, BigInt, Integer, Integer>>
      [] t = "comms" -> <<BigInt, Varchar(16)>>
      [] t = "comm_threads" -> <<BigInt, BigInt, BigInt>>
      [] t = "dsos" -> <<BigInt, BigInt, Varchar(256), Varchar(4096), Varchar(64)>>
      [] t = "symbols" -> <<BigInt, BigInt, BigInt, BigInt, Integer, Varchar(2048)>>
      [] t = "branch_types" -> <<Integer, Varchar(80)>>
      [] t = "samples" -> SamplesColumns(br)
      [] t = "call_paths" -> <<BigInt, BigInt, BigInt, BigInt>>
      [] t = "calls" -> <<BigInt, BigInt, BigInt, BigInt, BigInt, BigInt, BigInt, BigInt,
                          BigInt, BigInt, Integer>>

\* a binary field is read into a column when its length is the type's size, or
\* for varchar(n) at most n
FieldFits(fld, col) ==
    IF col[1] = "varchar" THEN fld[2] <= col[2] ELSE fld[2] = col[2]

\* COPY t FROM STDIN (FORMAT 'binary') stores the rows only when the table
\* exists and every record has one fitting field per column; otherwise it
\* stores none
CopyAccepted(t, rows) ==
    /\ t \in created
    /\ \A i \in 1..Len(rows) :
          /\ rows[i].nf = Len(Columns(t, branches))
          /\ Len(rows[i].flds) = rows[i].nf
          /\ \A j \in 1..rows[i].nf : FieldFits(rows[i].flds[j], Columns(t, branches)[j])

\* the statements after "Adding foreign keys"
FkOrder(calls, chains) ==
    <<"threads", "comm_threads", "dsos", "symbols", "samples">>
    \o (IF calls \/ chains THEN <<"call_paths">> ELSE <<>>)
    \o (IF calls THEN <<"calls", "pcpid_idx">> ELSE <<>>)

(***************************************************************************)
(* Start-up: the module-level statements.                                  *)
(***************************************************************************)
\* no list_check is running
ListIdle ==
    /\ mem = <<[next |-> 1, prev |-> 1]>>
    /\ readable = {1}
    /\ headType = "struct list_head"
    /\ head = 1
    /\ lpc = "idle"
    /\ cur = 1
    /\ nb = 0
    /\ out = ""

\* the exporter before its first statement
ExportInit ==
    /\ argv \in Argvs
    /\ pc = "parse"
    /\ idx = 1
    /\ failedAt = ""
    /\ columns = "all"
    /\ branches = FALSE
    /\ perf_db_export_calls = FALSE
    /\ perf_db_export_callchains = FALSE
    /\ dirExists = FALSE
    /\ dbCreated = FALSE
    /\ created = {}
    /\ files = [t \in Tables |-> [st |-> "none", content |-> <<>>]]
    /\ nEvents = 0
    /\ nargs = 0
    /\ copyStep = "connect"
    /\ data = 0
    /\ pos = 0
    /\ sent = 0
    /\ loaded = [t \in Tables |-> <<>>]
    /\ copied = {}
    /\ pkAdded = {}
    /\ fkAdded = {}
    /\ indexAdded = FALSE
    /\ unhandled_count = 0
    /\ warned = FALSE

Init == ListIdle /\ ExportInit

RaiseSwallowed(step) ==
    /\ pc' = pc
    /\ failedAt' = step

\* an exception ends the run at the current statement
Raise(step) ==
    /\ pc' = "failed"
    /\ failedAt' = step

startVars == <<argv, nEvents, nargs, copyStep, data, pos, sent, loaded, copied, pkAdded,
               fkAdded, indexAdded, unhandled_count, warned, listVars>>

ParseArgs ==
    /\ pc = "parse"
    /\ columns' = IF Len(argv) < 2 THEN columns ELSE ColumnsOf(argv)
    /\ branches' = IF Len(argv) < 2 \/ ColumnsOf(argv) \notin {"all", "branches"}
                   THEN branches
                   ELSE ColumnsOf(argv) = "branches"
    /\ perf_db_export_calls' =
         (Len(argv) >= 2 /\ ColumnsOf(argv) \in {"all", "branches"}
            /\ "calls" \in TokensSeen(argv))
    /\ perf_db_export_callchains' =
         (Len(argv) >= 2 /\ ColumnsOf(argv) \in {"all", "branches"}
            /\ "callchains" \in TokensSeen(argv))
    /\ IF UsageRaised(argv)
       THEN Raise("usage")
       ELSE pc' = "mkdir" /\ failedAt' = failedAt
    /\ UNCHANGED <<idx, dirExists, dbCreated, created, files>>
    /\ UNCHANGED startVars

Mkdir ==
    /\ pc = "mkdir"
    /\ \/ dirExists' = TRUE /\ pc' = "createdb" /\ failedAt' = failedAt
       \/ dirExists' = dirExists /\ Raise("mkdir")
    /\ UNCHANGED <<idx, columns, branches, perf_db_export_calls,
                   perf_db_export_callchains, dbCreated, created, files>>
    /\ UNCHANGED startVars

DirAfterCreateFailureKept == dirExists

\* the except clause of CREATE DATABASE: os.rmdir(output_dir_name)
DirAfterCreateFailure == FALSE

CreateDatabase ==
    /\ pc = "createdb"
    /\ \/ dbCreated' = TRUE /\ dirExists' = dirExists /\ pc' = "ddl"
          /\ failedAt' = failedAt
       \/ dbCreated' = dbCreated /\ dirExists' = DirAfterCreateFailure
          /\ Raise("createdb")
    /\ UNCHANGED <<idx, columns, branches, perf_db_export_calls,
                   perf_db_export_callchains, created, files>>
    /\ UNCHANGED startVars

Ddl ==
    /\ pc = "ddl"
    /\ LET order == DdlOrder(perf_db_export_calls, perf_db_export_callchains)
       IN  \/ /\ created' = created \cup ({order[idx]} \ {"SET"})
              /\ IF idx < Len(order)
                 THEN idx' = idx + 1 /\ pc' = pc
                 ELSE idx' = 1 /\ pc' = "open"
              /\ failedAt' = failedAt
           \/ created' = created /\ idx' = idx /\ Raise("ddl")
    /\ UNCHANGED <<columns, branches, perf_db_export_calls,
                   perf_db_export_callchains, dirExists, dbCreated, files>>
    /\ UNCHANGED startVars

open_output_file_no_header(f, t) == [f EXCEPT ![t] = [st |-> "open", content |-> <<>>]]

\* open_output_file: open(path, "w+") and file.write(file_header)
open_output_file(f, t) == [f EXCEPT ![t] = [st |-> "open", content |-> <<Header>>]]

OpenFiles ==
    /\ pc = "open"
    /\ LET order == OpenOrder(perf_db_export_calls, perf_db_export_callchains)
       IN  \/ /\ files' = open_output_file(files, order[idx])
              /\ IF idx < Len(order)
                 THEN idx' = idx + 1 /\ pc' = pc
                 ELSE idx' = 1 /\ pc' = "begin"
              /\ failedAt' = failedAt
           \/ files' = files /\ idx' = idx /\ Raise("open")
    /\ UNCHANGED <<columns, branches, perf_db_export_calls,
                   perf_db_export_callchains, dirExists, dbCreated, created>>
    /\ UNCHANGED startVars

(***************************************************************************)
(* The callbacks the trace engine calls between trace_begin and trace_end. *)
(***************************************************************************)
cfgVars == <<argv, columns, branches, perf_db_export_calls, perf_db_export_callchains,
             dbCreated, created, listVars>>

endVars == <<copyStep, data, pos, sent, loaded, copied, pkAdded, fkAdded, indexAdded,
             warned>>

\* file.write(value) on the table's staging file
write(f, t, value) ==
    [f EXCEPT ![t].content =
        Append(@, IF value.k = "row"
                  THEN [k |-> "row", id |-> value.id, nf |-> value.nf, fk |-> value.fk,
                        flds |-> value.flds, len |-> PackedLen(value)]
                  ELSE value)]

ZeroRefs(cols) == [c \in cols |-> 0]

trace_begin_without_call_path(f) ==
    LET f1 == write(f, "selected_events", evsel_row(0, UnknownLen))
        f2 == write(f1, "machines", machine_row(0, UnknownLen))
        f3 == write(f2, "threads", thread_row(0, 0, 0))
        f4 == write(f3, "comms", comm_row(0, UnknownLen))
        f5 == write(f4, "dsos", dso_row(0, 0, UnknownLen, UnknownLen, 0))
        f6 == write(f5, "symbols", symbol_row(0, 0, UnknownLen))
    IN  write(f6, "samples", sample_row(branches, 0, ZeroRefs(SampleRefCols)))

\* the "unknown" records trace_begin writes
trace_begin(f) ==
    LET f1 == write(f, "selected_events", evsel_row(0, UnknownLen))
        f2 == write(f1, "machines", machine_row(0, UnknownLen))
        f3 == write(f2, "threads", thread_row(0, 0, 0))
        f4 == write(f3, "comms", comm_row(0, UnknownLen))
        f5 == write(f4, "dsos", dso_row(0, 0, UnknownLen, UnknownLen, 0))
        f6 == write(f5, "symbols", symbol_row(0, 0, UnknownLen))
        f7 == write(f6, "samples", sample_row(branches, 0, ZeroRefs(SampleRefCols)))
    IN  IF perf_db_export_calls \/ perf_db_export_callchains
        THEN write(f7, "call_paths", call_path_row(0, 0, 0))
        ELSE f7

TraceBegin ==
    /\ pc = "begin"
    /\ files' = trace_begin(files)
    /\ nargs' = SampleArity
    /\ pc' = "stream"
    /\ UNCHANGED <<idx, failedAt, dirExists, nEvents, unhandled_count>>
    /\ UNCHANGED cfgVars
    /\ UNCHANGED endVars

\* one callback that appends value to table t's file
Deliver(t, value) ==
    /\ pc = "stream"
    /\ files' = write(files, t, value)
    /\ nEvents' = nEvents + 1
    /\ UNCHANGED <<pc, idx, failedAt, dirExists, unhandled_count>>
    /\ UNCHANGED cfgVars
    /\ UNCHANGED endVars

\* b bounds the callbacks of a run
Emit(b, t, value) == nEvents < b /\ Deliver(t, value) /\ UNCHANGED nargs

EvselTable(b) == \E i \in Ids, n \in StrLens : Emit(b, "selected_events", evsel_row(i, n))

MachineTable(b) == \E i \in Ids, n \in StrLens : Emit(b, "machines", machine_row(i, n))

ThreadTable(b) == \E i \in Ids, m, p \in Refs : Emit(b, "threads", thread_row(i, m, p))

CommTable(b) == \E i \in Ids, n \in StrLens : Emit(b, "comms", comm_row(i, n))

CommThreadTable(b) == \E i \in Ids, c, t \in Refs : Emit(b, "comm_threads", comm_thread_row(i, c, t))

DsoTable(b) == \E i \in Ids, m \in Refs, n \in StrLens : Emit(b, "dsos", dso_row(i, m, n, n, n))

SymbolTable(b) == \E i \in Ids, d \in Refs, n \in StrLens : Emit(b, "symbols", symbol_row(i, d, n))

BranchTypeTable(b) == \E i \in Ids, n \in StrLens : Emit(b, "branch_types", branch_type_row(i, n))

\* sample_table called with nargs positional arguments
SampleTable(b) ==
    /\ pc = "stream"
    /\ nEvents < b
    /\ \E n \in ArgCounts, i \in Ids, r \in RefTuples(SampleRefCols) :
        /\ nargs' = n
        /\ IF n < SampleArity
           THEN /\ Raise("sample_table")
                /\ UNCHANGED <<idx, dirExists, files, nEvents, unhandled_count>>
                /\ UNCHANGED cfgVars
                /\ UNCHANGED endVars
           ELSE Deliver("samples", sample_row(branches, i, r))

CallPathTable(b) ==
    /\ pc = "stream"
    /\ perf_db_export_calls \/ perf_db_export_callchains
    /\ \E i \in Ids, p, s \in Refs : Emit(b, "call_paths", call_path_row(i, p, s))

CallReturnTable(b) ==
    /\ pc = "stream"
    /\ perf_db_export_calls
    /\ \E i \in Ids, r \in RefTuples(CallRefCols) :
          Emit(b, "calls", call_return_row(i, r.thread_id, r.comm_id, r.call_path_id,
                                        r.call_id, r.return_id, r.parent_call_path_id))

TraceUnhandledFlag(b) ==
    /\ pc = "stream"
    /\ nEvents < b
    /\ unhandled_count' = 1
    /\ nEvents' = nEvents + 1
    /\ UNCHANGED <<pc, idx, failedAt, dirExists, files, nargs>>
    /\ UNCHANGED cfgVars
    /\ UNCHANGED endVars

\* trace_unhandled: unhandled_count += 1
TraceUnhandled(b) ==
    /\ pc = "stream"
    /\ nEvents < b
    /\ unhandled_count' = unhandled_count + 1
    /\ nEvents' = nEvents + 1
    /\ UNCHANGED <<pc, idx, failedAt, dirExists, files, nargs>>
    /\ UNCHANGED cfgVars
    /\ UNCHANGED endVars

(***************************************************************************)
(* trace_end: copy every file, remove every file and the directory, add    *)
(* the primary keys, add the foreign keys.                                 *)
(***************************************************************************)
ReadSize == 65536

MinSwapped(a, b) == IF a <= b THEN b ELSE a

\* file.read(size) returns what is left when that is less than size
Min(a, b) == IF a <= b THEN a ELSE b

TraceEndPhasesKeysFirst == <<"pk", "copy", "remove", "rmdir", "fk", "warn">>

TraceEndPhasesRemoveFirst == <<"remove", "copy", "rmdir", "pk", "fk", "warn">>

\* the order of trace_end's blocks
TraceEndPhases == <<"copy", "remove", "rmdir", "pk", "fk", "warn">>

PhaseAfter(p) ==
    LET i == CHOOSE j \in 1..Len(TraceEndPhases) : TraceEndPhases[j] = p
    IN  IF i < Len(TraceEndPhases) THEN TraceEndPhases[i + 1] ELSE "done"

\* the next statement of the current block, or the first of the next block
Advance(order) ==
    IF idx < Len(order)
    THEN idx' = idx + 1 /\ pc' = pc
    ELSE idx' = 1 /\ pc' = PhaseAfter(pc)

\* the statements of the block trace_end is in
PhaseOrder ==
    CASE pc = "remove" -> RemoveOrder(perf_db_export_calls, perf_db_export_callchains)
      [] pc = "pk" -> PkOrder(perf_db_export_calls, perf_db_export_callchains)
      [] OTHER -> CopyOrder(perf_db_export_calls, perf_db_export_callchains)

CurTable == PhaseOrder[idx]

\* the rows wholly inside the first n bytes of a file
RECURSIVE RowsWithin(_, _)
RowsWithin(c, n) ==
    IF c = <<>> \/ Head(c).len > n
    THEN <<>>
    ELSE (IF Head(c).k = "row" THEN <<Head(c)>> ELSE <<>>)
         \o RowsWithin(Tail(c), n - Head(c).len)

TraceEnd ==
    /\ pc = "stream"
    /\ pc' = TraceEndPhases[1]
    /\ idx' = 1
    /\ UNCHANGED <<failedAt, dirExists, files, nEvents, nargs, unhandled_count>>
    /\ UNCHANGED cfgVars
    /\ UNCHANGED endVars

\* conn = PQconnectdb(...); if (PQstatus(conn)): raise
CopyConnect ==
    /\ pc = "copy"
    /\ copyStep = "connect"
    /\ \/ copyStep' = "begin" /\ pc' = pc /\ failedAt' = failedAt
       \/ copyStep' = copyStep /\ Raise("PQconnectdb")
    /\ UNCHANGED <<idx, dirExists, files, nEvents, nargs, unhandled_count, data, pos, sent,
                   loaded, copied, pkAdded, fkAdded, indexAdded, warned>>
    /\ UNCHANGED cfgVars

\* file.write(file_trailer); file.seek(0); PQexec(COPY ... FROM STDIN); first read
CopyBegin ==
    /\ pc = "copy"
    /\ copyStep = "begin"
    /\ IF files[CurTable].st # "open"
       THEN /\ Raise("write")
            /\ UNCHANGED <<files, copyStep, data, pos, sent>>
       ELSE /\ files' = write(files, CurTable, Trailer)
            /\ \/ /\ CurTable \in created
                  /\ copyStep' = "loop"
                  /\ data' = Min(ReadSize, ContentLen(files'[CurTable].content))
                  /\ pos' = data'
                  /\ sent' = 0
                  /\ pc' = pc /\ failedAt' = failedAt
               \/ /\ Raise("PQexec")
                  /\ UNCHANGED <<copyStep, data, pos, sent>>
    /\ UNCHANGED <<idx, dirExists, nEvents, nargs, unhandled_count, loaded, copied, pkAdded,
                   fkAdded, indexAdded, warned>>
    /\ UNCHANGED cfgVars

\* the body of while (len(data)): PQputCopyData, then the next read
CopyData ==
    /\ pc = "copy"
    /\ copyStep = "loop"
    /\ data > 0
    /\ \/ /\ sent' = sent + data
          /\ data' = Min(ReadSize, ContentLen(files[CurTable].content) - pos)
          /\ pos' = pos + data'
          /\ pc' = pc /\ failedAt' = failedAt
       \/ /\ Raise("PQputCopyData")
          /\ UNCHANGED <<data, pos, sent>>
    /\ UNCHANGED <<idx, dirExists, files, nEvents, nargs, unhandled_count, copyStep, loaded,
                   copied, pkAdded, fkAdded, indexAdded, warned>>
    /\ UNCHANGED cfgVars

\* PQputCopyEnd and PQfinish, with no PQgetResult: the table holds the rows
\* that were sent if the database accepted them, and the call returns either way
CopyEnd ==
    /\ pc = "copy"
    /\ copyStep = "loop"
    /\ data = 0
    /\ \/ /\ loaded' = [loaded EXCEPT
                          ![CurTable] =
                              IF CopyAccepted(CurTable,
                                              RowsWithin(files[CurTable].content, sent))
                              THEN RowsWithin(files[CurTable].content, sent)
                              ELSE <<>>]
          /\ copied' = copied \cup {CurTable}
          /\ copyStep' = "connect"
          /\ pos' = 0
          /\ sent' = 0
          /\ Advance(PhaseOrder)
          /\ failedAt' = failedAt
       \/ /\ Raise("PQputCopyEnd")
          /\ UNCHANGED <<idx, loaded, copied, copyStep, pos, sent>>
    /\ UNCHANGED <<dirExists, files, nEvents, nargs, unhandled_count, data, pkAdded, fkAdded,
                   indexAdded, warned>>
    /\ UNCHANGED cfgVars

\* remove_output_file: file.close(); os.unlink(name)
remove_output_file(f, t) == [f EXCEPT ![t] = [st |-> "removed", content |-> <<>>]]

RemoveFile ==
    /\ pc = "remove"
    /\ \/ /\ files' = remove_output_file(files, CurTable)
          /\ Advance(PhaseOrder)
          /\ failedAt' = failedAt
       \/ /\ Raise("unlink")
          /\ UNCHANGED <<idx, files>>
    /\ UNCHANGED <<dirExists, nEvents, nargs, unhandled_count>>
    /\ UNCHANGED cfgVars
    /\ UNCHANGED endVars

\* os.rmdir(output_dir_name): only an empty directory can be removed
Rmdir ==
    /\ pc = "rmdir"
    /\ \/ /\ \A t \in Tables : files[t].st # "open"
          /\ dirExists' = FALSE
          /\ pc' = PhaseAfter(pc)
          /\ failedAt' = failedAt
       \/ /\ Raise("rmdir")
          /\ UNCHANGED dirExists
    /\ UNCHANGED <<idx, files, nEvents, nargs, unhandled_count>>
    /\ UNCHANGED cfgVars
    /\ UNCHANGED endVars

AddPrimaryKey ==
    /\ pc = "pk"
    /\ \/ /\ CurTable \in created
          /\ PkAccepted(CurTable)
          /\ pkAdded' = pkAdded \cup {CurTable}
          /\ Advance(PhaseOrder)
          /\ failedAt' = failedAt
       \/ /\ Raise("pk")
          /\ UNCHANGED <<idx, pkAdded>>
    /\ UNCHANGED <<dirExists, files, nEvents, nargs, unhandled_count, copyStep, data, pos, sent,
                   loaded, copied, fkAdded, indexAdded, warned>>
    /\ UNCHANGED cfgVars

AddForeignKeys ==
    /\ pc = "fk"
    /\ LET order == FkOrder(perf_db_export_calls, perf_db_export_callchains)
       IN  \/ /\ order[idx] # "pcpid_idx"
              /\ FkAccepted(order[idx])
              /\ fkAdded' = fkAdded \cup {order[idx]}
              /\ Advance(order)
              /\ UNCHANGED <<failedAt, indexAdded>>
           \/ /\ order[idx] = "pcpid_idx"
              /\ indexAdded' = TRUE
              /\ Advance(order)
              /\ UNCHANGED <<failedAt, fkAdded>>
           \/ /\ Raise("fk")
              /\ UNCHANGED <<idx, fkAdded, indexAdded>>
    /\ UNCHANGED <<dirExists, files, nEvents, nargs, unhandled_count, copyStep, data, pos, sent,
                   loaded, copied, pkAdded, warned>>
    /\ UNCHANGED cfgVars

\* if (unhandled_count): print the warning; print "Done"
Warn ==
    /\ pc = "warn"
    /\ warned' = (unhandled_count > 0)
    /\ pc' = PhaseAfter(pc)
    /\ UNCHANGED <<idx, failedAt, dirExists, files, nEvents, nargs, unhandled_count, copyStep,
                   data, pos, sent, loaded, copied, pkAdded, fkAdded, indexAdded>>
    /\ UNCHANGED cfgVars

Next ==
    \/ ParseArgs
    \/ Mkdir
    \/ CreateDatabase
    \/ Ddl
    \/ OpenFiles
    \/ TraceBegin
    \/ EvselTable(MaxEvents)
    \/ MachineTable(MaxEvents)
    \/ ThreadTable(MaxEvents)
    \/ CommTable(MaxEvents)
    \/ CommThreadTable(MaxEvents)
    \/ DsoTable(MaxEvents)
    \/ SymbolTable(MaxEvents)
    \/ BranchTypeTable(MaxEvents)
    \/ SampleTable(MaxEvents)
    \/ CallPathTable(MaxEvents)
    \/ CallReturnTable(MaxEvents)
    \/ TraceUnhandled(MaxEvents)
    \/ TraceEnd
    \/ CopyConnect
    \/ CopyBegin
    \/ CopyData
    \/ CopyEnd
    \/ RemoveFile
    \/ Rmdir
    \/ AddPrimaryKey
    \/ AddForeignKeys
    \/ Warn

Spec == Init /\ [][Next]_vars

(***************************************************************************)
(* The runs of "export-to-postgresql.py db [branches]" with the callbacks  *)
(* that write the tables samples refers to, and samples itself.            *)
(***************************************************************************)
InitRefs ==
    /\ Init
    /\ argv \in {<<"export-to-postgresql.py", "db">>,
                 <<"export-to-postgresql.py", "db", "branches">>}

NextRefs ==
    \/ ParseArgs
    \/ Mkdir
    \/ CreateDatabase
    \/ Ddl
    \/ OpenFiles
    \/ TraceBegin
    \/ EvselTable(MaxRefEvents)
    \/ MachineTable(MaxRefEvents)
    \/ ThreadTable(MaxRefEvents)
    \/ CommTable(MaxRefEvents)
    \/ DsoTable(MaxRefEvents)
    \/ SymbolTable(MaxRefEvents)
    \/ SampleTable(MaxRefEvents)
    \/ TraceEnd
    \/ CopyConnect
    \/ CopyBegin
    \/ CopyData
    \/ CopyEnd
    \/ RemoveFile
    \/ Rmdir
    \/ AddPrimaryKey
    \/ AddForeignKeys
    \/ Warn

SpecRefs == InitRefs /\ [][NextRefs]_vars

(***************************************************************************)
(* The trace engine as the Id Allocator and the Event Adapter describe it: *)
(* ids of a kind are issued 1, 2, ... in the order of first sight, and an  *)
(* entity is encoded before any record that refers to it.                  *)
(***************************************************************************)
MaxNodes == 3

\* the records of a staging file
RowsOf(c) == SelectSeq(c, LAMBDA item : item.k = "row")

\* next(kind): one more than the ids issued so far, 0 being the sentinel's
NextId(t) == Len(RowsOf(files[t].content))

AdapterCallPathTable ==
    /\ pc = "stream"
    /\ perf_db_export_calls \/ perf_db_export_callchains
    /\ NextId("call_paths") <= MaxNodes
    /\ \E p \in RowIds(RowsOf(files["call_paths"].content)),
          y \in RowIds(RowsOf(files["symbols"].content)) :
          Deliver("call_paths", call_path_row(NextId("call_paths"), p, y))
          /\ UNCHANGED nargs

NextAdapter ==
    \/ ParseArgs
    \/ Mkdir
    \/ CreateDatabase
    \/ Ddl
    \/ OpenFiles
    \/ TraceBegin
    \/ AdapterCallPathTable
    \/ TraceEnd
    \/ CopyConnect
    \/ CopyBegin
    \/ CopyData
    \/ CopyEnd
    \/ RemoveFile
    \/ Rmdir
    \/ AddPrimaryKey
    \/ AddForeignKeys
    \/ Warn

SpecAdapter == Init /\ [][NextAdapter]_vars

(***************************************************************************)
(* Runs whose dsos file outgrows one file.read: dso_table is called with   *)
(* names as long as the columns of CREATE TABLE dsos admit, and with a    *)
(* new id each time.                                                       *)
(***************************************************************************)
MaxDsos == 16

\* varchar(256), varchar(4096), varchar(64)
DsoNameLens == <<256, 4096, 64>>

\* a dso_id no record of the file has yet
FreshDsoId == Len(RowsOf(files["dsos"].content))

DsoTableLong ==
    /\ pc = "stream"
    /\ FreshDsoId <= MaxDsos
    /\ Deliver("dsos", dso_row(FreshDsoId, 0,
                               DsoNameLens[1], DsoNameLens[2], DsoNameLens[3]))
    /\ UNCHANGED nargs

NextCopy ==
    \/ ParseArgs
    \/ Mkdir
    \/ CreateDatabase
    \/ Ddl
    \/ OpenFiles
    \/ TraceBegin
    \/ DsoTableLong
    \/ TraceEnd
    \/ CopyConnect
    \/ CopyBegin
    \/ CopyData
    \/ CopyEnd
    \/ RemoveFile
    \/ Rmdir
    \/ AddPrimaryKey
    \/ AddForeignKeys
    \/ Warn

SpecCopy == InitRefs /\ [][NextCopy]_vars

(***************************************************************************)
(* Runs in which events without a handler are mixed with selected-event    *)
(* and comm callbacks.                                                     *)
(***************************************************************************)
MaxUnhandled == 3

NextUnhandled ==
    \/ ParseArgs
    \/ Mkdir
    \/ CreateDatabase
    \/ Ddl
    \/ OpenFiles
    \/ TraceBegin
    \/ EvselTable(MaxUnhandled)
    \/ CommTable(MaxUnhandled)
    \/ TraceUnhandled(MaxUnhandled)
    \/ TraceEnd
    \/ CopyConnect
    \/ CopyBegin
    \/ CopyData
    \/ CopyEnd
    \/ RemoveFile
    \/ Rmdir
    \/ AddPrimaryKey
    \/ AddForeignKeys
    \/ Warn

SpecUnhandled == InitRefs /\ [][NextUnhandled]_vars

(***************************************************************************)
(* Runs of every combination of the calls and callchains options, with the *)
(* callbacks of the two optional tables.                                   *)
(***************************************************************************)
OptionLists == {<<>>, <<"calls">>, <<"callchains">>, <<"calls", "callchains">>,
                <<"callchains", "calls">>}

InitOptions ==
    /\ Init
    /\ argv \in {<<"export-to-postgresql.py", "db", c>> \o o :
                   c \in {"all", "branches"}, o \in OptionLists}

NextOptions ==
    \/ ParseArgs
    \/ Mkdir
    \/ CreateDatabase
    \/ Ddl
    \/ OpenFiles
    \/ TraceBegin
    \/ CallPathTable(MaxEvents)
    \/ CallReturnTable(MaxEvents)
    \/ TraceEnd
    \/ CopyConnect
    \/ CopyBegin
    \/ CopyData
    \/ CopyEnd
    \/ RemoveFile
    \/ Rmdir
    \/ AddPrimaryKey
    \/ AddForeignKeys
    \/ Warn

SpecOptions == InitOptions /\ [][NextOptions]_vars

(***************************************************************************)
(* scripts/gdb/linux/lists.py: list_check(head) on a memory of struct      *)
(* list_head whose next and prev point anywhere in it.  Addresses are      *)
(* interchangeable, so head is address 1 and the address gdb cannot read,  *)
(* if there is one, is 1 or 2.                                             *)
(***************************************************************************)
MaxListNodes == 3

Nodes == 1..MaxListNodes

ListHeads == [next : Nodes, prev : Nodes]

ListTypes == {"struct list_head *", "struct list_head", "int"}

ListInit ==
    /\ ExportInit
    /\ argv = <<"export-to-postgresql.py">>
    /\ head = 1
    /\ \/ /\ headType \in ListTypes
          /\ mem = [x \in Nodes |-> [next |-> x, prev |-> x]]
          /\ readable = Nodes
       \/ /\ headType = "struct list_head *"
          /\ mem \in [Nodes -> ListHeads]
          /\ readable \in {Nodes, Nodes \ {1}, Nodes \ {2}}
    /\ lpc = "entry"
    /\ cur = head
    /\ nb = 0
    /\ out = ""

\* p['next'] != c.address, p being c['prev'].dereference()
PrevNextOk(x) == mem[mem[x].prev].next = x

NextPrevUnchecked(x) == TRUE

\* n['prev'] != c.address, n being c['next'].dereference()
NextPrevOk(x) == mem[mem[x].next].prev = x

\* c == head on two gdb.Value structs: gdb compares their contents
SameStruct(a, b) == mem[a] = mem[b]

\* list_check returns with message m, or raises it
ListReturn(m) ==
    /\ out' = m
    /\ lpc' = IF m = "GdbError" THEN "raised" ELSE "done"
    /\ UNCHANGED <<cur, nb>>

\* from nb = 0 to the first gdb.write
ListCheckEnter ==
    /\ lpc = "entry"
    /\ IF headType \notin {"struct list_head *", "struct list_head"}
       THEN ListReturn("GdbError")
       ELSE IF head \notin readable
       THEN ListReturn("head is not accessible")
       ELSE /\ lpc' = "loop"
            /\ cur' = head
            /\ nb' = 0
            /\ out' = "Starting with"
    /\ UNCHANGED <<mem, readable, headType, head>>
    /\ UNCHANGED exportVars

\* one iteration of while True
ListCheckStep ==
    /\ lpc = "loop"
    /\ nb <= MaxListNodes
    /\ LET p == mem[cur].prev
           n == mem[cur].next
       IN  IF p \notin readable THEN ListReturn("prev is not accessible")
           ELSE IF ~PrevNextOk(cur) THEN ListReturn("prev.next != current")
           ELSE IF n \notin readable THEN ListReturn("next is not accessible")
           ELSE IF ~NextPrevOk(cur) THEN ListReturn("next.prev != current")
           ELSE /\ cur' = n
                /\ nb' = nb + 1
                /\ IF SameStruct(n, head)
                   THEN out' = "list is consistent" /\ lpc' = "done"
                   ELSE UNCHANGED <<out, lpc>>
    /\ UNCHANGED <<mem, readable, headType, head>>
    /\ UNCHANGED exportVars

NextList ==
    \/ ListCheckEnter
    \/ ListCheckStep

\* list_check runs to its end once called
SpecList == ListInit /\ [][NextList]_vars /\ WF_vars(NextList)

(***************************************************************************)
(* Properties.                                                             *)
(***************************************************************************)
CreatedTables == created \cap Tables

Last(c) == c[Len(c)]

\* C1: in trace_end no primary key is added until the bulk copy of every created
\* table has completed, and no foreign key nor the pcpid_idx index is added until
\* every created table has its primary key, so the table a foreign key
\* references is already keyed.
C1_FinalizeAfterLoad ==
    [][/\ pkAdded' # pkAdded => CreatedTables \subseteq copied
       /\ (fkAdded' # fkAdded \/ indexAdded' # indexAdded) =>
            /\ CreatedTables \subseteq pkAdded
            /\ \A t \in fkAdded' \ fkAdded :
                  \A c \in FkConstraints(t) : c[2] \in pkAdded]_vars

C1_Witness ==
    /\ pc = "done"
    /\ indexAdded
    /\ "calls" \in fkAdded
    /\ pkAdded = CreatedTables
    /\ copied = CreatedTables

\* C2 as claimed: during the load phase at most one already-transferred staging
\* file still exists, each file being destroyed right after its own transfer.
C2_Original ==
    pc = "copy" => Cardinality({t \in copied : files[t].st = "open"}) <= 1

\* C2 as amended: no staging file is destroyed during the load phase; every
\* created table's file stays open until the bulk copy of every created table has
\* completed, and only then are the files closed and unlinked.
C2_RemoveAfterAllCopies ==
    /\ [](pc = "copy" => \A t \in CreatedTables : files[t].st = "open")
    /\ [][(\E t \in Tables : files[t].st = "open" /\ files'[t].st = "removed")
            => CreatedTables \subseteq copied]_vars

C2_Witness ==
    /\ pc = "remove"
    /\ files["selected_events"].st = "removed"
    /\ files["machines"].st = "open"
    /\ "machines" \in copied

HasSentinelFirst(c) == Len(c) >= 2 /\ c[2].k = "row" /\ c[2].id = 0

SentinelTables == {"selected_events", "machines", "threads", "comms", "dsos", "symbols",
                   "samples", "call_paths"}

SampleRows == RowsOf(files["samples"].content)

ClaimedFieldCount ==
    IF branches THEN 18
    ELSE IF perf_db_export_calls \/ perf_db_export_callchains THEN 23 ELSE 22

\* C4 as claimed: a sample record declares 18 fields (branches), 22 (all) or 23
\* (all with call paths), and a call whose value count differs from that is
\* rejected.
C4_Original ==
    /\ \A i \in 1..Len(SampleRows) : SampleRows[i].nf = ClaimedFieldCount
    /\ (nargs # 0 /\ nargs # ClaimedFieldCount) =>
          (pc = "failed" /\ failedAt = "sample_table")

\* C4 as amended: a sample record declares 18 fields when the variant is branches
\* and 22 when it is all, with or without call paths; sample_table takes 22
\* values in both variants: a call with fewer is rejected, aborting the run with
\* nothing appended, and a call with 22 or more appends one record.
C4_SampleFieldCount ==
    /\ [](\A i \in 1..Len(SampleRows) : SampleRows[i].nf = IF branches THEN 18 ELSE 22)
    /\ [](failedAt = "sample_table" <=> (nargs # 0 /\ nargs < SampleArity))
    /\ [][(failedAt' = "sample_table" /\ failedAt = "") => files' = files]_vars
    /\ [][(pc = "stream" /\ files'["samples"] # files["samples"]) =>
            /\ nargs' >= SampleArity
            /\ pc' = "stream"
            /\ \E row \in {Last(files'["samples"].content)} :
                  /\ row.k = "row"
                  /\ row.nf = (IF branches THEN 18 ELSE 22)
                  /\ files'["samples"].content = Append(files["samples"].content, row)]_vars

C4_Witness ==
    /\ pc = "stream"
    /\ nargs = SampleArity + 1
    /\ ~branches
    /\ perf_db_export_calls
    /\ Len(SampleRows) = 2
    /\ SampleRows[2].nf = 22

\* C5 as claimed: the working directory exists from its creation on, is removed
\* by a successful run, and is still there after a run that failed in database
\* creation, DDL, bulk copy or adding keys.
C5_Original ==
    /\ pc \in {"createdb", "ddl", "open", "begin", "stream", "copy"} => dirExists
    /\ pc = "done" => ~dirExists
    /\ (pc = "failed" /\ failedAt \in {"createdb", "ddl", "PQconnectdb", "PQexec",
                                       "PQputCopyData", "PQputCopyEnd", "pk", "fk"})
          => dirExists

\* C5 as amended: the directory is created before the database, kept until
\* trace_end has removed every staging file, and removed before any key is
\* added; it is still there after a failure in DDL, in opening a staging file, in
\* a callback, in bulk copy or in file removal, and it is gone after a failed
\* CREATE DATABASE and after a failure adding primary or foreign keys.
C5_DirectoryLifetime ==
    /\ pc \in {"createdb", "ddl", "open", "begin", "stream", "copy", "remove", "rmdir"}
          => dirExists
    /\ pc \in {"pk", "fk", "warn", "done"} => ~dirExists
    /\ pc = "failed" =>
          (dirExists <=> failedAt \in {"ddl", "open", "sample_table", "PQconnectdb",
                                       "PQexec", "PQputCopyData", "PQputCopyEnd",
                                       "unlink", "rmdir"})

C5_Witness ==
    /\ pc = "failed"
    /\ failedAt = "pk"
    /\ ~dirExists
    /\ dbCreated

\* the command lines the interface calls invalid
ArgsInvalid ==
    \/ Len(argv) < 2
    \/ Len(argv) >= 3 /\ argv[3] \notin {"all", "branches"}
    \/ \E i \in 4..Len(argv) : argv[i] \notin {"calls", "callchains"}

\* C6: with an invalid command line usage is reported and the run ends before the
\* working directory, the database, a table, a view or a staging file exists.
C6_UsageBeforeSideEffects ==
    (ArgsInvalid /\ pc # "parse") =>
        /\ pc = "failed"
        /\ failedAt = "usage"
        /\ ~dirExists
        /\ ~dbCreated
        /\ created = {}
        /\ \A t \in Tables : files[t].st = "none"

C6_Witness ==
    /\ pc = "failed"
    /\ failedAt = "usage"
    /\ Len(argv) = 4
    /\ argv[3] = "branches"
    /\ argv[4] = "bogus"

CopyFailures == {"PQconnectdb", "PQexec", "PQputCopyData", "PQputCopyEnd"}

\* C7: when a step of a table's bulk transfer fails the run ends there: exactly
\* the tables earlier in the load order are loaded, no staging file is removed
\* and no key is added.
C7_CopyFailureAborts ==
    failedAt \in CopyFailures =>
        /\ pc = "failed"
        /\ copied = {TableOrder(perf_db_export_calls, perf_db_export_callchains)[j] :
                        j \in 1..(idx - 1)}
        /\ \A t \in Tables \ copied : loaded[t] = <<>>
        /\ \A t \in CreatedTables : files[t].st = "open"
        /\ pkAdded = {}
        /\ fkAdded = {}
        /\ ~indexAdded

C7_Witness ==
    /\ pc = "failed"
    /\ failedAt = "PQputCopyData"
    /\ idx = 3
    /\ copied = {"selected_events", "machines"}
    /\ Len(loaded["machines"]) = 2

\* C8: a staging file starts with the header, written once; records follow it;
\* the trailer is written once, by the file's copy, after every record; and once
\* the trailer is written the file's content never changes again.
C8_HeaderRecordsTrailer ==
    /\ [](\A t \in Tables : files[t].st = "open" =>
            LET c == files[t].content
            IN  /\ Len(c) >= 1
                /\ c[1].k = "hdr"
                /\ \A i \in 2..Len(c) : c[i].k # "hdr"
                /\ \A i \in 1..(Len(c) - 1) : c[i].k # "trl"
                /\ t \in copied => Last(c).k = "trl")
    /\ [][\A t \in Tables :
            (files[t].st = "open" /\ files[t].content # <<>>
               /\ Last(files[t].content).k = "trl")
            => (files'[t].content = files[t].content \/ files'[t].st = "removed")]_vars

C8_Witness ==
    /\ pc = "copy"
    /\ "machines" \in copied
    /\ Len(files["machines"].content) = 4
    /\ files["machines"].content[3].k = "row"
    /\ Last(files["machines"].content).k = "trl"

\* the table each foreign-key column of samples refers to
SampleRefTable ==
    [evsel_id |-> "selected_events", machine_id |-> "machines", thread_id |-> "threads",
     comm_id |-> "comms", dso_id |-> "dsos", symbol_id |-> "symbols",
     to_dso_id |-> "dsos", to_symbol_id |-> "symbols"]

\* C9: once the foreign keys of samples are added, every foreign-key field of
\* every samples row is 0 or the id of a row loaded into the table it refers to.
C9_SampleReferencesResolve ==
    "samples" \in fkAdded =>
        \A i \in 1..Len(loaded["samples"]) :
            \A c \in DOMAIN SampleRefTable :
                \/ loaded["samples"][i].fk[c] = 0
                \/ loaded["samples"][i].fk[c] \in RowIds(loaded[SampleRefTable[c]])

C9_Witness ==
    /\ "samples" \in fkAdded
    /\ Len(loaded["samples"]) = 2
    /\ loaded["samples"][2].fk.to_symbol_id = 1
    /\ loaded["samples"][2].fk.evsel_id = 0

\* the call_paths records written so far, or loaded once the file is gone
CallPathRows ==
    IF files["call_paths"].st = "open"
    THEN RowsOf(files["call_paths"].content)
    ELSE loaded["call_paths"]

ParentOf(rows, id) == (rows[CHOOSE i \in 1..Len(rows) : rows[i].id = id]).fk.parent_id

RECURSIVE ReachesZero(_, _, _)
ReachesZero(rows, id, k) ==
    IF id = 0 THEN TRUE
    ELSE IF k = 0 \/ id \notin RowIds(rows) THEN FALSE
    ELSE ReachesZero(rows, ParentOf(rows, id), k - 1)

\* C10 as claimed: from every call_paths row the parent chain reaches id 0 within
\* N hops, N being the number of call-path nodes, and no row is its own parent.
C10_Original ==
    LET rows == CallPathRows
    IN  \A i \in 1..Len(rows) :
            /\ ReachesZero(rows, rows[i].id, Len(rows) - 1)
            /\ rows[i].fk.parent_id # rows[i].id

\* C10 as amended, for callbacks issued as the Id Allocator and the Event Adapter
\* describe: the rows have distinct ids; the id 0 row written by trace_begin is
\* there and is its own parent (parent_id 0); every other row's parent_id is the
\* id of an earlier row, smaller than its own, so no other row is its own parent
\* and no chain has a cycle; and from every row the chain reaches id 0 within N
\* hops.
C10_TreeRootedAtSentinel ==
    LET rows == CallPathRows
    IN  pc \in {"stream", "copy", "remove", "rmdir", "pk", "fk", "warn", "done"}
          /\ "call_paths" \in created
          /\ (files["call_paths"].st = "open" \/ "call_paths" \in copied) =>
            /\ rows # <<>>
            /\ rows[1].id = 0
            /\ rows[1].fk.parent_id = 0
            /\ \A i, j \in 1..Len(rows) : rows[i].id = rows[j].id => i = j
            /\ \A i \in 2..Len(rows) :
                  /\ rows[i].fk.parent_id < rows[i].id
                  /\ rows[i].fk.parent_id \in RowIds(rows)
            /\ \A i \in 1..Len(rows) : ReachesZero(rows, rows[i].id, Len(rows) - 1)

C10_Witness ==
    /\ pc = "done"
    /\ Len(loaded["call_paths"]) = 4
    /\ loaded["call_paths"][4].fk.parent_id = 2
    /\ loaded["call_paths"][3].fk.parent_id = 1
    /\ loaded["call_paths"][2].fk.parent_id = 0

\* the content bytes the binary COPY format gives a field of each kind, or -1
\* for text, whose width is the string's length
FixedWidth(kind) ==
    CASE kind = "q" -> 8
      [] kind = "i" -> 4
      [] kind = "B" -> 1
      [] OTHER -> -1

\* r declares its fields' number, each field its bytes' number (8, 4 or 1 by
\* its kind unless it is text), and r is as long as all of it together
WellFramed(r) ==
    /\ r.nf = Len(r.flds)
    /\ \A j \in 1..Len(r.flds) :
          /\ r.flds[j][1] = r.flds[j][2]
          /\ r.flds[j][3] # "s" => r.flds[j][1] = FixedWidth(r.flds[j][3])
    /\ r.len = 2 + SumWidths(r.flds)

\* C11: every record an encoder writes declares as its field count the number of
\* fields that follow, every field's length prefix equals the number of content
\* bytes that follow it (8 for a 64-bit id, 4 for a 32-bit integer, 1 for a
\* boolean, the string's length for text), and the record is as long as its
\* count, prefixes and contents together.
C11_RecordFraming ==
    [][\A t \in Tables :
          files'[t].content # files[t].content =>
              \A i \in (Len(files[t].content) + 1)..Len(files'[t].content) :
                  files'[t].content[i].k = "row" => WellFramed(files'[t].content[i])]_vars

C11_Witness ==
    /\ pc = "stream"
    /\ branches
    /\ Len(RowsOf(files["samples"].content)) = 2
    /\ \E j \in 1..18 : RowsOf(files["samples"].content)[2].flds[j][3] = "B"
    /\ RowsOf(files["dsos"].content)[1].flds[5] = <<0, 0, "s">>
    /\ Len(RowsOf(files["call_paths"].content)) = 1

\* C12: a copy_output_file that returns has passed the file to the copy channel
\* whole and in order: every chunk is non-empty, at most 65536 bytes, lies in
\* the file and starts where the one before ended (the first at the first
\* header byte), and PQputCopyEnd is called once per file, after the read that
\* found nothing more, when the chunks add up to the file from header to
\* trailer, and only after PQexec accepted the COPY.  (Whether the database
\* keeps the rows is CopyAccepted's matter, not the transfer's.)
C12_CopySendsWholeFile ==
    [][/\ (pc = "copy" /\ sent' # sent /\ copied' = copied) =>
            /\ copyStep = "loop"
            /\ data > 0
            /\ data <= ReadSize
            /\ sent = pos - data
            /\ sent' = pos
            /\ pos <= ContentLen(files[CurTable].content)
       /\ copied' # copied =>
            /\ copied' = copied \cup {CurTable}
            /\ CurTable \notin copied
            /\ copyStep = "loop"
            /\ data = 0
            /\ sent = ContentLen(files[CurTable].content)
            /\ Head(files[CurTable].content) = Header
            /\ Last(files[CurTable].content) = Trailer]_vars

C12_Witness ==
    /\ "dsos" \in copied
    /\ files["dsos"].st = "open"
    /\ ContentLen(files["dsos"].content) > ReadSize
    /\ Len(loaded["dsos"]) = MaxDsos + 1

\* C13: the tally is 0 until the first callback; a callback that leaves every
\* staging file as it was and does not end the run is a trace_unhandled call and
\* adds exactly 1 to the tally, and nothing else changes the tally, so the tally
\* is the number of trace_unhandled calls; trace_unhandled changes nothing else;
\* the warning is printed only by the last statement of a trace_end that got
\* that far, and then exactly when the tally is greater than 0.
C13_UnhandledTally ==
    [][/\ pc \in {"parse", "mkdir", "createdb", "ddl", "open", "begin"} =>
            unhandled_count = 0
       /\ unhandled_count' # unhandled_count =>
            /\ unhandled_count' = unhandled_count + 1
            /\ nEvents' = nEvents + 1
            /\ pc = "stream" /\ pc' = pc /\ failedAt' = failedAt
            /\ files' = files
            /\ UNCHANGED <<idx, dirExists, nargs>>
            /\ UNCHANGED cfgVars
            /\ UNCHANGED endVars
       /\ (nEvents' # nEvents /\ files' = files) =>
            unhandled_count' = unhandled_count + 1
       /\ (pc' = "done" /\ pc # "done") =>
            /\ warned' = (unhandled_count > 0)
            /\ unhandled_count' = unhandled_count
       /\ warned' # warned => (pc = "warn" /\ pc' = "done")]_vars

C13_Witness ==
    /\ pc = "done"
    /\ warned
    /\ unhandled_count = 2
    /\ nEvents = 3
    /\ Len(loaded["comms"]) = 2

\* the tables the options ask for
OptionTables ==
    Range(BaseTables)
    \cup (IF perf_db_export_calls \/ perf_db_export_callchains THEN {"call_paths"} ELSE {})
    \cup (IF perf_db_export_calls THEN {"calls"} ELSE {})

OpenedTables == {t \in Tables : files[t].st = "open"}

RemovedTables == {t \in Tables : files[t].st = "removed"}

C15_Original ==
    \A i \in 1..Len(SampleRows) : SampleRows[i].nf = Len(SamplesColumns(branches))

\* the run that shows it: with columns = branches every statement of the script
\* succeeds and the samples table is left empty
C15_Witness ==
    /\ pc = "done"
    /\ branches
    /\ "samples" \in copied
    /\ "samples" \in pkAdded
    /\ loaded["samples"] = <<>>
    /\ Len(loaded["selected_events"]) = 2

\* the node k steps along next from x
RECURSIVE NextIter(_, _)
NextIter(x, k) == IF k = 0 THEN x ELSE NextIter(mem[x].next, k - 1)

\* x is what its two neighbours point back to
LinkedBack(x) == mem[mem[x].prev].next = x /\ mem[mem[x].next].prev = x

BrokenReports == {"prev.next != current", "next.prev != current"}

\* the report list_check ended with is the right one for the memory
ListVerdict ==
    \/ /\ out = "list is consistent"
       /\ nb >= 1
       /\ NextIter(head, nb) = head
       /\ \A k \in 1..(nb - 1) : NextIter(head, k) # head
       /\ \A k \in 0..(nb - 1) : LinkedBack(NextIter(head, k))
    \/ /\ out \in BrokenReports
       /\ cur = NextIter(head, nb)
       /\ ~LinkedBack(cur)
       /\ \A k \in 0..(nb - 1) : LinkedBack(NextIter(head, k))
       /\ \A k \in 1..nb : NextIter(head, k) # head
       /\ out = "prev.next != current" <=> mem[mem[cur].prev].next # cur

\* C16: list_check ends, whatever the pointers; when its argument is a list
\* head and every address is readable it ends either at the first node on the
\* way along next whose prev.next or next.prev is not that node, reporting the
\* broken link, or back at head, reporting the list consistent with the number
\* of nodes of the next-cycle through head, every one of which has both links
\* pointing back.
C16_ListCheckTerminates ==
    /\ []((lpc = "done" /\ headType # "int" /\ readable = Nodes) => ListVerdict)
    /\ [](lpc = "loop" => nb < MaxListNodes)
    /\ <>(lpc \in {"done", "raised"})

C16_Witness ==
    /\ lpc = "done"
    /\ out = "list is consistent"
    /\ readable = Nodes
    /\ nb = 3
    /\ mem[1].next = 3

====
